---- MODULE Spec2Model ----
(***************************************************************************)
(* Minesweeper CLI (src/minesweeper.py, src/play.py).                      *)
(*                                                                         *)
(* The state is the one Grid of a Minesweeper game (width, height,         *)
(* mine_count, cells), the position of the control flow inside             *)
(* Minesweeper.play / _get_user_guess (pc), the locals of those methods,   *)
(* and what the program has printed.  One action per step of the code.     *)
(***************************************************************************)
EXTENDS Integers, Sequences, FiniteSets, TLC

\* Largest width and height a game is started with.
MaxDim == 3
\* Dimensions are also drawn from -NegDim .. 0 (play.py does not reject them).
NegDim == 2
\* Largest number of cells (width * height) of a constructed grid.
MaxCells == 9
\* Largest number of open() calls one cell receives when open is applied freely.
MaxOpenCalls == 2
\* Largest number of cells of a grid in the behaviours checked for progress.
LiveMaxCells == 6

VARIABLES
    width,                  \* Grid.width
    height,                 \* Grid.height
    mine_count,             \* Grid.mine_count
    cells,                  \* Grid.cells: row index -> column index -> Cell
    pc,                     \* position of the control flow
    raised,                 \* the exception that left main(), "" when none
    column_index,           \* local of _get_user_guess
    row_index,              \* local of _get_user_guess
    user_coordinate_guess,  \* local of play
    message,                \* the last line print() wrote, other than a grid row
    rendered,               \* the rows the last Grid.print() wrote
    reported,               \* the end-of-game messages printed so far
    renders,                \* history: number of Grid.print() calls
    applied,                \* history: number of guesses _get_user_guess returned
    mine_guesses,           \* history: number of returned guesses that named a mine
    open_calls              \* history: position -> number of Cell.open() calls

vars == <<width, height, mine_count, cells, pc, raised, column_index, row_index,
          user_coordinate_guess, message, rendered, reported, renders, applied,
          mine_guesses, open_calls>>

grid_vars == <<width, height, mine_count, cells>>
local_vars == <<column_index, row_index, user_coordinate_guess>>
history_vars == <<renders, applied, mine_guesses, open_calls>>

----------------------------------------------------------------------------
(* Python built-ins *)

\* range(a, b)
Range(a, b) == a .. (b - 1)

\* list[i]: a negative index counts from the end
PyIndex(n, i) == IF i < 0 THEN i + n ELSE i

\* whether list[i] is defined on a list of length n (IndexError otherwise)
PyInRange(n, i) == -n <= i /\ i < n

\* the integers whose decimal text the player may type
TypedInts == (0 - 1) .. MaxDim

\* what input() may return: text that is no number, and decimal numbers
Inputs == {"abc"} \cup {ToString(i) : i \in TypedInts}

\* int(s): the number s is the decimal text of, or ValueError
int(s) ==
    IF \E i \in TypedInts : ToString(i) = s
    THEN [ok |-> TRUE, value |-> CHOOSE i \in TypedInts : ToString(i) = s]
    ELSE [ok |-> FALSE, value |-> 0]

\* str(n)
str(n) == ToString(n)

\* random.sample(population, k): every list of k elements taken at distinct
\* indices of population; defined when 0 <= k <= len(population)
SampleDefined(population, k) == 0 <= k /\ k <= Len(population)

\* sampling with replacement (random.choices): indices may repeat
random_sample_with_replacement(population, k) ==
    { [i \in 1..k |-> population[pick[i]]] : pick \in [1..k -> 1..Len(population)] }

random_sample(population, k) ==
    { [i \in 1..k |-> population[pick[i]]] :
        pick \in { f \in [1..k -> 1..Len(population)] :
                     \A i, j \in 1..k : i # j => f[i] # f[j] } }

----------------------------------------------------------------------------
(* class Cell *)

Cell(has_mine, adjacent_mines_count, is_open) ==
    [has_mine |-> has_mine,
     adjacent_mines_count |-> adjacent_mines_count,
     is_open |-> is_open]

\* flips the flag instead of setting it
open_toggles(cell) == [cell EXCEPT !.is_open = ~cell.is_open]

\* Cell.open
open(cell) == [cell EXCEPT !.is_open = TRUE]

\* `or` where `and` is meant
unopened_or_non_mine(cell) == cell.is_open = FALSE \/ cell.has_mine = FALSE

\* Cell.unopened_non_mine
unopened_non_mine(cell) == cell.is_open = FALSE /\ cell.has_mine = FALSE

\* a debugging aid left in: a mine prints as "*"
cell_str_shows_mine(cell) ==
    IF cell.has_mine
    THEN "*"
    ELSE IF cell.is_open
    THEN (IF cell.adjacent_mines_count # 0 THEN str(cell.adjacent_mines_count) ELSE "0")
    ELSE " "

\* Cell.__str__
cell_str(cell) ==
    IF cell.is_open
    THEN (IF cell.adjacent_mines_count # 0 THEN str(cell.adjacent_mines_count) ELSE "0")
    ELSE " "

----------------------------------------------------------------------------
(* class Grid *)

\* Grid._create_empty_cells
create_empty_cells(w, h) ==
    [r \in Range(0, h) |-> [c \in Range(0, w) |-> Cell(FALSE, 0, FALSE)]]

\* Grid._generate_grid_coordinate_positions: row-major list of (row, col)
generate_grid_coordinate_positions(w, h) ==
    IF w <= 0 \/ h <= 0
    THEN <<>>
    ELSE [i \in 1..(w * h) |-> <<(i - 1) \div w, (i - 1) % w>>]

\* Grid._identify_non_mine_positions
identify_non_mine_positions(coordinate_positions, mine_positions) ==
    {coordinate_positions[i] : i \in DOMAIN coordinate_positions}
        \ {mine_positions[i] : i \in DOMAIN mine_positions}

\* Grid._place_mines: the loop over mine_positions, from its i-th element on
RECURSIVE place_mines_from(_, _, _)
place_mines_from(cs, mine_positions, i) ==
    IF i > Len(mine_positions)
    THEN cs
    ELSE LET row == mine_positions[i][1]
             col == mine_positions[i][2]
         IN  place_mines_from([cs EXCEPT ![row][col].has_mine = TRUE],
                              mine_positions, i + 1)

place_mines(cs, mine_positions) == place_mines_from(cs, mine_positions, 1)

\* the upper bounds alone: a negative index then wraps around
is_valid_position_upper_only(w, h, r, c) == r < h /\ c < w

\* Grid._is_valid_position
is_valid_position(w, h, r, c) == 0 <= r /\ r < h /\ 0 <= c /\ c < w

\* cells[row_index][column_index] as Python indexes the nested lists
cell_at(cs, w, h, r, c) == cs[PyIndex(h, r)][PyIndex(w, c)]

\* the inner two loops of Grid._set_adjacent_mine_count for one position
adjacent_count(cs, w, h, r, c) ==
    Cardinality({ p \in Range(r - 1, r + 2) \X Range(c - 1, c + 2) :
                    is_valid_position(w, h, p[1], p[2])
                    /\ cell_at(cs, w, h, p[1], p[2]).has_mine })

\* Grid._set_adjacent_mine_count
set_adjacent_mine_count(cs, w, h, non_mine_positions) ==
    [r \in DOMAIN cs |->
        [c \in DOMAIN cs[r] |->
            IF <<r, c>> \in non_mine_positions
            THEN [cs[r][c] EXCEPT !.adjacent_mines_count = adjacent_count(cs, w, h, r, c)]
            ELSE cs[r][c]]]

\* Grid._set_cell_mines_and_adjacent_counts, for one outcome of random.sample
set_cell_mines_and_adjacent_counts(cs, w, h, mine_positions) ==
    LET coordinate_positions == generate_grid_coordinate_positions(w, h)
        mined == place_mines(cs, mine_positions)
        non_mine_positions ==
            identify_non_mine_positions(coordinate_positions, mine_positions)
    IN  set_adjacent_mine_count(mined, w, h, non_mine_positions)

\* `return False` indented into the outer loop: only the first row is scanned
has_unopened_non_mines_first_row(cs) ==
    \E r \in DOMAIN cs \cap {0} : \E c \in DOMAIN cs[r] : unopened_non_mine(cs[r][c])

\* Grid.has_unopened_non_mines
has_unopened_non_mines(cs) ==
    \E r \in DOMAIN cs : \E c \in DOMAIN cs[r] : unopened_non_mine(cs[r][c])

\* Grid.print: one printed row per row of cells
grid_print(cs, w, h) ==
    [r \in 1..Cardinality(DOMAIN cs) |->
        [c \in 1..Cardinality(DOMAIN cs[r - 1]) |-> cell_str(cs[r - 1][c - 1])]]

\* reads has_mine where is_open is meant
is_cell_opened_reads_has_mine(cs, w, h, r, c) == cell_at(cs, w, h, r, c).has_mine

\* Grid.is_cell_opened
is_cell_opened(cs, w, h, r, c) == cell_at(cs, w, h, r, c).is_open

\* reads is_open where has_mine is meant
has_mine_at_reads_is_open(cs, w, h, coordinate) ==
    cell_at(cs, w, h, coordinate.row, coordinate.column).is_open

\* Grid.has_mine_at
has_mine_at(cs, w, h, coordinate) ==
    cell_at(cs, w, h, coordinate.row, coordinate.column).has_mine

----------------------------------------------------------------------------
(* class Minesweeper *)

\* Coordinate = namedtuple("Coordinate", "row column")
Coordinate(row, column) == [row |-> row, column |-> column]

\* the test of Minesweeper._get_valid_coordinate on a parsed number
coordinate_accepted(coordinate, max_index) == 0 <= coordinate /\ coordinate <= max_index

\* the x bound taken from the height
max_row_index_from_height(w, h) == h - 1

\* max_index passed for plane "x" and for plane "y" in _get_user_guess
max_row_index(w, h) == w - 1
max_col_index(w, h) == h - 1

Init ==
    /\ width = 0
    /\ height = 0
    /\ mine_count = 0
    /\ cells = <<>>
    /\ pc = "main"
    /\ raised = ""
    /\ column_index = 0
    /\ row_index = 0
    /\ user_coordinate_guess = <<>>
    /\ message = ""
    /\ rendered = <<>>
    /\ reported = {}
    /\ renders = 0
    /\ applied = 0
    /\ mine_guesses = 0
    /\ open_calls = <<>>

\* the dimensions main() may pass to Minesweeper(width, height)
Dimensions ==
    { d \in ((0 - NegDim) .. MaxDim) \X ((0 - NegDim) .. MaxDim) :
        d[1] * d[2] <= MaxCells }

\* the same construction with the mine count rounded up instead of down
NewGameRoundsUp(w, h) ==
    /\ pc = "main"
    /\ LET k == (w * h + 3) \div 4
           coordinate_positions == generate_grid_coordinate_positions(w, h)
       IN  /\ width' = w
           /\ height' = h
           /\ mine_count' = k
           /\ IF SampleDefined(coordinate_positions, k)
              THEN /\ \E mine_positions \in random_sample(coordinate_positions, k) :
                        cells' = set_cell_mines_and_adjacent_counts(
                                     create_empty_cells(w, h), w, h, mine_positions)
                   /\ pc' = "while"
                   /\ raised' = ""
              ELSE /\ cells' = create_empty_cells(w, h)
                   /\ pc' = "raised"
                   /\ raised' = "ValueError"
    /\ open_calls' = [r \in Range(0, h) |-> [c \in Range(0, w) |-> 0]]
    /\ UNCHANGED <<local_vars, message, rendered, reported, renders, applied, mine_guesses>>

\* play.py main -> Minesweeper.__init__ -> Grid.__init__
NewGame(w, h) ==
    /\ pc = "main"
    /\ LET k == (w * h) \div 4
           coordinate_positions == generate_grid_coordinate_positions(w, h)
       IN  /\ width' = w
           /\ height' = h
           /\ mine_count' = k
           /\ IF SampleDefined(coordinate_positions, k)
              THEN /\ \E mine_positions \in random_sample(coordinate_positions, k) :
                        cells' = set_cell_mines_and_adjacent_counts(
                                     create_empty_cells(w, h), w, h, mine_positions)
                   /\ pc' = "while"
                   /\ raised' = ""
              ELSE /\ cells' = create_empty_cells(w, h)
                   /\ pc' = "raised"
                   /\ raised' = "ValueError"
    /\ open_calls' = [r \in Range(0, h) |-> [c \in Range(0, w) |-> 0]]
    /\ UNCHANGED <<local_vars, message, rendered, reported, renders, applied, mine_guesses>>

\* play: the test of `while self.grid.has_unopened_non_mines()` and the loop's else
WhileTest ==
    /\ pc = "while"
    /\ IF has_unopened_non_mines(cells)
       THEN /\ pc' = "print"
            /\ UNCHANGED <<message, reported>>
       ELSE /\ pc' = "done"
            /\ message' = "Hooray!! You won"
            /\ reported' = reported \cup {"Hooray!! You won"}
    /\ UNCHANGED <<grid_vars, raised, local_vars, rendered, history_vars>>

\* play: self.grid.print()
GridPrint ==
    /\ pc = "print"
    /\ rendered' = grid_print(cells, width, height)
    /\ renders' = renders + 1
    /\ pc' = "guess"
    /\ UNCHANGED <<grid_vars, raised, local_vars, message, reported, applied,
                   mine_guesses, open_calls>>

\* _get_user_guess: top of `while True`
GuessPrompt ==
    /\ pc = "guess"
    /\ message' = "Try to guess a non-mine."
    /\ pc' = "get_x"
    /\ UNCHANGED <<grid_vars, raised, local_vars, rendered, reported, history_vars>>

\* the prompt of _get_valid_coordinate, which input(prompt) writes
prompt(plane) ==
    IF plane = "x" THEN "Enter zero-index x-coordinate between 0 and max_index: "
                   ELSE "Enter zero-index y-coordinate between 0 and max_index: "

\* one pass of the loop of _get_valid_coordinate on the text typed: the number
\* returned, or the message printed before prompting again
get_valid_coordinate(plane, typed, max_index) ==
    LET parsed == int(typed)
    IN  IF ~parsed.ok
        THEN [returned |-> FALSE, value |-> 0,
              printed |-> "Invalid input. Please enter a valid number."]
        ELSE IF coordinate_accepted(parsed.value, max_index)
        THEN [returned |-> TRUE, value |-> parsed.value, printed |-> prompt(plane)]
        ELSE [returned |-> FALSE, value |-> 0,
              printed |-> "Invalid input. Please enter a number between 0 and max_index."]

\* _get_user_guess: column_index = self._get_valid_coordinate(plane="x", ...)
GetX(typed) ==
    /\ pc = "get_x"
    /\ LET got == get_valid_coordinate("x", typed, max_row_index(width, height))
       IN  /\ message' = got.printed
           /\ IF got.returned
              THEN /\ column_index' = got.value
                   /\ pc' = "get_y"
              ELSE UNCHANGED <<column_index, pc>>
    /\ UNCHANGED <<grid_vars, raised, row_index, user_coordinate_guess, rendered,
                   reported, history_vars>>

\* _get_user_guess: row_index = self._get_valid_coordinate(plane="y", ...)
GetY(typed) ==
    /\ pc = "get_y"
    /\ LET got == get_valid_coordinate("y", typed, max_col_index(width, height))
       IN  /\ message' = got.printed
           /\ IF got.returned
              THEN /\ row_index' = got.value
                   /\ pc' = "is_cell_opened"
              ELSE UNCHANGED <<row_index, pc>>
    /\ UNCHANGED <<grid_vars, raised, column_index, user_coordinate_guess, rendered,
                   reported, history_vars>>

\* the same test, printing the grid again after an already-opened cell
CheckOpenedReprints ==
    /\ pc = "is_cell_opened"
    /\ IF ~(PyInRange(height, row_index) /\ PyInRange(width, column_index))
       THEN /\ pc' = "raised"
            /\ raised' = "IndexError"
            /\ UNCHANGED <<local_vars, message, applied>>
       ELSE IF is_cell_opened(cells, width, height, row_index, column_index)
       THEN /\ message' = "Invalid input. The cell is already opened. Please choose another cell."
            \* both indices are assigned again before they are next read
            /\ column_index' = 0
            /\ row_index' = 0
            /\ pc' = "print"
            /\ UNCHANGED <<user_coordinate_guess, raised, applied>>
       ELSE \* return: the frame of _get_user_guess, and its locals, are gone
            /\ user_coordinate_guess' = Coordinate(row_index, column_index)
            /\ column_index' = 0
            /\ row_index' = 0
            /\ applied' = applied + 1
            /\ pc' = "has_guessed_mine"
            /\ UNCHANGED <<message, raised>>
    /\ UNCHANGED <<grid_vars, rendered, reported, renders, mine_guesses, open_calls>>

\* _get_user_guess: the is_cell_opened test; returns the Coordinate to play
CheckOpened ==
    /\ pc = "is_cell_opened"
    /\ IF ~(PyInRange(height, row_index) /\ PyInRange(width, column_index))
       THEN /\ pc' = "raised"
            /\ raised' = "IndexError"
            /\ UNCHANGED <<local_vars, message, applied>>
       ELSE IF is_cell_opened(cells, width, height, row_index, column_index)
       THEN /\ message' = "Invalid input. The cell is already opened. Please choose another cell."
            \* both indices are assigned again before they are next read
            /\ column_index' = 0
            /\ row_index' = 0
            /\ pc' = "guess"
            /\ UNCHANGED <<user_coordinate_guess, raised, applied>>
       ELSE \* return: the frame of _get_user_guess, and its locals, are gone
            /\ user_coordinate_guess' = Coordinate(row_index, column_index)
            /\ column_index' = 0
            /\ row_index' = 0
            /\ applied' = applied + 1
            /\ pc' = "has_guessed_mine"
            /\ UNCHANGED <<message, raised>>
    /\ UNCHANGED <<grid_vars, rendered, reported, renders, mine_guesses, open_calls>>

\* the same step without the `break`: the loop goes on after "You lose"
HasGuessedMineNoBreak ==
    /\ pc = "has_guessed_mine"
    /\ IF has_mine_at(cells, width, height, user_coordinate_guess)
       THEN /\ message' = "You lose"
            /\ reported' = reported \cup {"You lose"}
            /\ mine_guesses' = mine_guesses + 1
            /\ pc' = "while"
       ELSE /\ pc' = "open"
            /\ UNCHANGED <<message, reported, mine_guesses>>
    /\ UNCHANGED <<grid_vars, raised, local_vars, rendered, renders, applied, open_calls>>

\* play: `if self._has_guessed_mine(guess): print("You lose"); break`
HasGuessedMine ==
    /\ pc = "has_guessed_mine"
    /\ IF has_mine_at(cells, width, height, user_coordinate_guess)
       THEN /\ message' = "You lose"
            /\ reported' = reported \cup {"You lose"}
            /\ mine_guesses' = mine_guesses + 1
            /\ pc' = "done"
       ELSE /\ pc' = "open"
            /\ UNCHANGED <<message, reported, mine_guesses>>
    /\ UNCHANGED <<grid_vars, raised, local_vars, rendered, renders, applied, open_calls>>

\* opens every cell of the guessed row
OpenCellWholeRow ==
    /\ pc = "open"
    /\ LET r == PyIndex(height, user_coordinate_guess.row)
       IN  /\ cells' = [cells EXCEPT ![r] = [c \in DOMAIN @ |-> open(@[c])]]
           /\ open_calls' = [open_calls EXCEPT ![r] = [c \in DOMAIN @ |-> @[c] + 1]]
    /\ user_coordinate_guess' = <<>>
    /\ pc' = "while"
    /\ UNCHANGED <<width, height, mine_count, raised, column_index, row_index, message,
                   rendered, reported, renders, applied, mine_guesses>>

\* the loop test placed after the print: an open is followed by a render
OpenCellThenPrint ==
    /\ pc = "open"
    /\ LET r == PyIndex(height, user_coordinate_guess.row)
           c == PyIndex(width, user_coordinate_guess.column)
       IN  /\ cells' = [cells EXCEPT ![r][c] = open(@)]
           /\ open_calls' = [open_calls EXCEPT ![r][c] = @ + 1]
    \* the guess is not read again before play assigns the next one
    /\ user_coordinate_guess' = <<>>
    /\ pc' = "print"
    /\ UNCHANGED <<width, height, mine_count, raised, column_index, row_index, message,
                   rendered, reported, renders, applied, mine_guesses>>

\* play: self.grid.cells[guess.row][guess.column].open()
OpenCell ==
    /\ pc = "open"
    /\ LET r == PyIndex(height, user_coordinate_guess.row)
           c == PyIndex(width, user_coordinate_guess.column)
       IN  /\ cells' = [cells EXCEPT ![r][c] = open(@)]
           /\ open_calls' = [open_calls EXCEPT ![r][c] = @ + 1]
    \* the guess is not read again before play assigns the next one
    /\ user_coordinate_guess' = <<>>
    /\ pc' = "while"
    /\ UNCHANGED <<width, height, mine_count, raised, column_index, row_index, message,
                   rendered, reported, renders, applied, mine_guesses>>

\* the steps of a program started with dimensions drawn from `dims`
NextOn(dims) ==
    \/ \E d \in dims : NewGame(d[1], d[2])
    \/ WhileTest
    \/ GridPrint
    \/ GuessPrompt
    \/ \E typed \in Inputs : GetX(typed)
    \/ \E typed \in Inputs : GetY(typed)
    \/ CheckOpened
    \/ HasGuessedMine
    \/ OpenCell

Next == NextOn(Dimensions)

Spec == Init /\ [][Next]_vars

\* the player types a column that is in range
TypeColumn(typed) == GetX(typed) /\ pc' = "get_y"

\* the player types a row that is in range
TypeRow == \E typed \in Inputs : GetY(typed) /\ pc' = "is_cell_opened"

\* the player types a row that, with the column typed, names an unopened cell
TypeUnopenedRow ==
    \E typed \in Inputs :
        /\ GetY(typed)
        /\ pc' = "is_cell_opened"
        /\ ~is_cell_opened(cells, width, height, row_index', column_index)

\* The program's own steps always run on; the player, asked again and again,
\* types every in-range column again and again, types an in-range row when asked
\* for one and, when the column holds an unopened cell, eventually types the row
\* of one: each turn gets a valid guess.
LiveDimensions == { d \in Dimensions : d[1] * d[2] <= LiveMaxCells }

LiveNext == NextOn(LiveDimensions)

Fairness ==
    /\ WF_vars(\E d \in LiveDimensions : NewGame(d[1], d[2]))
    /\ WF_vars(WhileTest)
    /\ WF_vars(GridPrint)
    /\ WF_vars(GuessPrompt)
    /\ WF_vars(CheckOpened)
    /\ WF_vars(HasGuessedMine)
    /\ WF_vars(OpenCell)
    /\ \A typed \in Inputs : SF_vars(TypeColumn(typed))
    /\ WF_vars(TypeRow)
    /\ SF_vars(TypeUnopenedRow)

FairSpec == Init /\ [][LiveNext]_vars /\ Fairness

\* self.grid.cells[r][c].open() applied to any cell of the grid, open or not
GridOpen(r, c) ==
    /\ pc = "while"
    /\ open_calls[r][c] < MaxOpenCalls
    /\ cells' = [cells EXCEPT ![r][c] = open(@)]
    /\ open_calls' = [open_calls EXCEPT ![r][c] = @ + 1]
    /\ UNCHANGED <<width, height, mine_count, pc, raised, local_vars, message, rendered,
                   reported, renders, applied, mine_guesses>>

\* a grid is constructed and open is applied to its cells in any order, repeatedly
OpenNext ==
    \/ \E d \in LiveDimensions : NewGame(d[1], d[2])
    \/ \E r \in 0 .. (height - 1) : \E c \in 0 .. (width - 1) : GridOpen(r, c)

OpenSpec == Init /\ [][OpenNext]_vars

----------------------------------------------------------------------------
(* Vocabulary of the properties *)

\* a Grid object exists (Grid.__init__ has run, whether or not it raised)
Constructed == pc # "main"

\* Grid.__init__ returned a grid and play() runs on it
Playable == pc \notin {"main", "raised"}

Rows == 0 .. (height - 1)
Cols == 0 .. (width - 1)
Positions == Rows \X Cols

\* the positions of the cells of `cs` that hold a mine
MinePositions(cs) ==
    { p \in { <<r, c>> : r \in DOMAIN cs, c \in UNION { DOMAIN cs[q] : q \in DOMAIN cs } } :
        p[2] \in DOMAIN cs[p[1]] /\ cs[p[1]][p[2]].has_mine }

\* Playing, Won or Lost, read off the end-of-game messages printed
GameState ==
    IF reported = {} THEN "Playing"
    ELSE IF reported = {"Hooray!! You won"} THEN "Won"
    ELSE IF reported = {"You lose"} THEN "Lost"
    ELSE "WonAndLost"

AllNonMinesOpen ==
    \A p \in Positions : ~cells[p[1]][p[2]].has_mine => cells[p[1]][p[2]].is_open

----------------------------------------------------------------------------
(* C1 *)

\* the grid as C1 describes it right after construction
FreshGrid ==
    /\ pc = "while"
    /\ raised = ""
    /\ DOMAIN cells = Rows
    /\ \A r \in Rows : DOMAIN cells[r] = Cols
    /\ mine_count = (width * height) \div 4
    /\ MinePositions(cells) \subseteq Positions
    /\ Cardinality(MinePositions(cells)) = (width * height) \div 4
    /\ \A p \in Positions : ~cells[p[1]][p[2]].is_open

----------------------------------------------------------------------------
(* C2 *)

\* the eight neighbour offsets
Offsets == ({0 - 1, 0, 1} \X {0 - 1, 0, 1}) \ {<<0, 0>>}

\* the mines among the in-bounds neighbours of (r, c)
NeighbourMines(r, c) ==
    { d \in Offsets :
        /\ r + d[1] \in Rows
        /\ c + d[2] \in Cols
        /\ cells[r + d[1]][c + d[2]].has_mine }

\* C2: after construction every non-mine cell's adjacent_mines_count is the number
\* of mines among its in-bounds neighbours (no wrap-around at edges and corners);
\* on a 2x2 grid each of the three non-mine cells has count 1.
C2_AdjacentCounts ==
    Playable =>
        /\ \A p \in Positions :
              ~cells[p[1]][p[2]].has_mine =>
                  cells[p[1]][p[2]].adjacent_mines_count
                      = Cardinality(NeighbourMines(p[1], p[2]))
        /\ (width = 2 /\ height = 2) =>
              /\ Cardinality(Positions \ MinePositions(cells)) = 3
              /\ \A p \in Positions \ MinePositions(cells) :
                    cells[p[1]][p[2]].adjacent_mines_count = 1

\* a 3x3 grid whose mines sit in the far row: the corner (0, 0) counts none of them
C2_Witness ==
    /\ Playable
    /\ width = 3
    /\ height = 3
    /\ MinePositions(cells) = {<<2, 2>>, <<2, 0>>}
    /\ cells[0][0].adjacent_mines_count = 0
    /\ cells[0][2].adjacent_mines_count = 0
    /\ cells[1][1].adjacent_mines_count = 2
    /\ cells[2][1].adjacent_mines_count = 2

----------------------------------------------------------------------------
(* C3 *)

\* C3: construction with width <= 0 or height <= 0 fails with InvalidDimension and
\* produces no grid; InvalidDimension is the only error construction raises.
C3_InvalidDimensionRaised ==
    Constructed =>
        /\ (width <= 0 \/ height <= 0) => (pc = "raised" /\ raised = "InvalidDimension")
        /\ raised \in {"", "InvalidDimension"}

----------------------------------------------------------------------------
(* C4 *)

NoMineOpen == \A p \in Positions : cells[p[1]][p[2]].has_mine => ~cells[p[1]][p[2]].is_open

\* the guess play() is about to test names a mine cell
GuessNamesMine ==
    /\ pc = "has_guessed_mine"
    /\ cells[user_coordinate_guess.row][user_coordinate_guess.column].has_mine

\* C4: a guess that names a mine ends the game as Lost in that turn without opening
\* the cell; no mine cell is ever open.
C4_MineGuessLoses ==
    /\ [](Playable => NoMineOpen)
    /\ [][GuessNamesMine =>
            (GameState' = "Lost" /\ pc' = "done" /\ cells' = cells
             /\ open_calls' = open_calls)]_vars

\* lost on a mine after two cells were opened; the mine is still unopened
C4_Witness ==
    /\ GameState = "Lost"
    /\ pc = "done"
    /\ applied = 3
    /\ cells[user_coordinate_guess.row][user_coordinate_guess.column].has_mine
    /\ ~cells[user_coordinate_guess.row][user_coordinate_guess.column].is_open
    /\ Cardinality({p \in Positions : cells[p[1]][p[2]].is_open}) = 2

----------------------------------------------------------------------------
(* C5 *)

\* C5: a play in which no applied guess names a mine reaches Won; Won is reported
\* only when every non-mine cell is open and no mine was guessed.
C5_SafePlayWins ==
    /\ [](GameState = "Won" => (Playable /\ AllNonMinesOpen /\ mine_guesses = 0))
    /\ ([](pc # "raised") /\ [](~GuessNamesMine)) => <>(GameState = "Won")

\* won on a 3x2 grid with its mine left unopened after five guesses
C5_Witness ==
    /\ GameState = "Won"
    /\ width = 3
    /\ height = 2
    /\ Cardinality(MinePositions(cells)) = 1
    /\ applied = 5
    /\ mine_guesses = 0
    /\ \A p \in Positions : cells[p[1]][p[2]].is_open <=> ~cells[p[1]][p[2]].has_mine

----------------------------------------------------------------------------
(* C6 *)

\* some cell has has_mine = false and is_open = false
SomeNonMineUnopened ==
    \E p \in Positions : cells[p[1]][p[2]].has_mine = FALSE /\ cells[p[1]][p[2]].is_open = FALSE

\* this step opens a non-mine cell and leaves every non-mine cell open
OpensLastNonMine ==
    /\ pc = "open"
    /\ \E p \in Positions :
          /\ ~cells[p[1]][p[2]].has_mine
          /\ ~cells[p[1]][p[2]].is_open
          /\ cells'[p[1]][p[2]].is_open
    /\ AllNonMinesOpen'

\* C6: has_unopened_non_mines() is true exactly when some non-mine cell is
\* unopened; it turns false exactly at the step that opens the last non-mine cell
\* and is false in every later state.
C6_HasUnopenedNonMines ==
    /\ [](Constructed => (has_unopened_non_mines(cells) <=> SomeNonMineUnopened))
    /\ [][Constructed =>
            ((has_unopened_non_mines(cells) /\ ~has_unopened_non_mines(cells'))
                <=> OpensLastNonMine)]_vars
    /\ [][(Constructed /\ ~has_unopened_non_mines(cells))
            => ~has_unopened_non_mines(cells')]_vars

\* every non-mine cell of a 3x3 grid is open, both mines are not, and the query is false
C6_Witness ==
    /\ pc = "while"
    /\ width = 3
    /\ height = 3
    /\ Cardinality(MinePositions(cells)) = 2
    /\ AllNonMinesOpen
    /\ NoMineOpen
    /\ ~has_unopened_non_mines(cells)

----------------------------------------------------------------------------
(* C7 *)

\* C7: the game starts in Playing and is always in exactly one of Playing, Won,
\* Lost; once Won or Lost is reached no guess is obtained, no cell is opened, the
\* grid is not rendered again and the other outcome is never reported.
C7_TerminalOutcomes ==
    /\ GameState = "Playing"
    /\ [](GameState \in {"Playing", "Won", "Lost"})
    /\ [](GameState # "Playing" => pc = "done")
    /\ [][GameState # "Playing" =>
            /\ reported' = reported
            /\ applied' = applied
            /\ user_coordinate_guess' = user_coordinate_guess
            /\ cells' = cells
            /\ open_calls' = open_calls
            /\ renders' = renders
            /\ rendered' = rendered]_vars

\* a game lost on the third guess, after two renders showed opened cells
C7_Witness ==
    /\ GameState = "Lost"
    /\ pc = "done"
    /\ renders = 3
    /\ applied = 3
    /\ \E p \in Positions : cells[p[1]][p[2]].is_open
    /\ has_unopened_non_mines(cells)

----------------------------------------------------------------------------
(* C8 *)

\* C8: every guess handed to play() is in bounds (x is the column, below width; y
\* is the row, below height) and names a cell that is unopened when the guess is
\* returned; out-of-range values and already-open cells never reach the grid.
C8_GuessValid ==
    /\ raised # "IndexError"
    /\ pc \in {"get_y", "is_cell_opened"} => column_index \in Cols
    /\ pc = "is_cell_opened" => row_index \in Rows
    /\ pc \in {"has_guessed_mine", "open"} =>
          /\ user_coordinate_guess.row \in Rows
          /\ user_coordinate_guess.column \in Cols
          /\ ~cells[user_coordinate_guess.row][user_coordinate_guess.column].is_open
          /\ open_calls[user_coordinate_guess.row][user_coordinate_guess.column] = 0

\* on a 3-wide, 2-high grid the far corner (row 1, column 2) is guessed third
C8_Witness ==
    /\ pc = "has_guessed_mine"
    /\ width = 3
    /\ height = 2
    /\ user_coordinate_guess = Coordinate(1, 2)
    /\ applied = 3
    /\ Cardinality({p \in Positions : cells[p[1]][p[2]].is_open}) = 2

----------------------------------------------------------------------------
(* C9 *)

\* C9: each cell's is_open starts false, may turn true and never turns false
\* again; play() opens each cell at most once.
C9_OpenMonotone ==
    /\ [][pc = "main" =>
            \A r \in DOMAIN cells' : \A c \in DOMAIN cells'[r] : ~cells'[r][c].is_open]_vars
    /\ [][\A p \in Positions : cells[p[1]][p[2]].is_open => cells'[p[1]][p[2]].is_open]_vars
    /\ [](Constructed =>
            \A p \in Positions :
                /\ open_calls[p[1]][p[2]] <= 1
                /\ cells[p[1]][p[2]].is_open <=> open_calls[p[1]][p[2]] = 1)

\* three cells were opened, each by one call, and the game goes on
C9_Witness ==
    /\ pc = "get_x"
    /\ Cardinality({p \in Positions : cells[p[1]][p[2]].is_open}) = 3
    /\ \A p \in Positions : cells[p[1]][p[2]].is_open => open_calls[p[1]][p[2]] = 1
    /\ message = "Try to guess a non-mine."

----------------------------------------------------------------------------
(* C10 *)

\* the mines, counts and dimensions of the grid are the same after the step
TopologyUnchanged ==
    /\ width' = width
    /\ height' = height
    /\ mine_count' = mine_count
    /\ DOMAIN cells' = DOMAIN cells
    /\ \A r \in DOMAIN cells :
          /\ DOMAIN cells'[r] = DOMAIN cells[r]
          /\ \A c \in DOMAIN cells[r] :
                /\ cells'[r][c].has_mine = cells[r][c].has_mine
                /\ cells'[r][c].adjacent_mines_count = cells[r][c].adjacent_mines_count

\* the step changes the cell at (r, c) only, and there only is_open, to true
OnlyOpens(r, c) ==
    /\ cells'[r][c].is_open
    /\ \A p \in Positions : p # <<r, c>> => cells'[p[1]][p[2]] = cells[p[1]][p[2]]

\* C10: after construction no step changes a cell's has_mine or
\* adjacent_mines_count, nor width, height or mine_count; the step that opens
\* (r, c) changes only that cell's is_open, and no other step changes any cell.
C10_FrameOfPlay ==
    [][Constructed =>
         /\ TopologyUnchanged
         /\ pc = "open" =>
               OnlyOpens(user_coordinate_guess.row, user_coordinate_guess.column)
         /\ pc # "open" => cells' = cells]_vars

\* a cell with a non-zero count was opened next to the untouched mines
C10_Witness ==
    /\ pc = "while"
    /\ width = 3
    /\ height = 3
    /\ \E p \in Positions :
          /\ cells[p[1]][p[2]].is_open
          /\ cells[p[1]][p[2]].adjacent_mines_count = 2
          /\ \A q \in Positions : q # p => ~cells[q[1]][q[2]].is_open
    /\ Cardinality(MinePositions(cells)) = mine_count
    /\ mine_count = 2

----------------------------------------------------------------------------
(* C11 *)

\* this step applies open() to the cell at p
OpenApplied(p) == open_calls'[p[1]][p[2]] = open_calls[p[1]][p[2]] + 1

\* C11: open is idempotent: applied to a cell that is already open it leaves
\* is_open, has_mine and adjacent_mines_count of every cell as they were.
C11_OpenIdempotent ==
    [][\A p \in Positions :
          (OpenApplied(p) /\ cells[p[1]][p[2]].is_open) => cells' = cells]_vars

\* a cell was opened twice and is open, beside an unopened cell and a mine
C11_Witness ==
    /\ \E p \in Positions :
          /\ open_calls[p[1]][p[2]] = 2
          /\ cells[p[1]][p[2]].is_open
    /\ \E p \in Positions : ~cells[p[1]][p[2]].is_open
    /\ MinePositions(cells) # {}

----------------------------------------------------------------------------
(* C12 *)

\* a game on the 1x1 grid
OneByOne == Playable /\ width = 1 /\ height = 1

\* C12: on a 1x1 grid mine_count is 0 and the single cell is never a mine;
\* has_unopened_non_mines() is true until that cell is opened and false afterwards;
\* every game on this grid ends in Won and Lost is never reached.
C12_OneByOneWins ==
    /\ [](OneByOne =>
            /\ mine_count = 0
            /\ ~cells[0][0].has_mine
            /\ has_unopened_non_mines(cells) <=> ~cells[0][0].is_open
            /\ mine_guesses = 0
            /\ GameState # "Lost")
    /\ (OneByOne ~> (GameState = "Won"))

\* the 1x1 game won after its one cell was opened by the one guess
C12_Witness ==
    /\ OneByOne
    /\ GameState = "Won"
    /\ cells[0][0].is_open
    /\ applied = 1
    /\ renders = 1

----------------------------------------------------------------------------
(* C13 *)

\* the decimal digits, by value + 1
Digits == <<"0", "1", "2", "3", "4", "5", "6", "7", "8">>

\* the token printed for the cell at (r, c) by the last Grid.print()
Token(r, c) == rendered[r + 1][c + 1]

\* the last render shows the grid as it is now
RenderShowsGrid ==
    /\ Len(rendered) = height
    /\ \A r \in Rows : Len(rendered[r + 1]) = width
    /\ \A p \in Positions :
          IF cells[p[1]][p[2]].is_open
          THEN /\ cells[p[1]][p[2]].adjacent_mines_count \in 0 .. 8
               /\ Token(p[1], p[2]) = Digits[cells[p[1]][p[2]].adjacent_mines_count + 1]
          ELSE Token(p[1], p[2]) = " "

\* C13: every render shows each unopened cell as the blank token and each opened
\* cell as the decimal digit of its adjacent_mines_count, which lies in 0..8; a
\* mine cell is never shown as opened, nor told apart from an unopened cell.
C13_RenderTokens ==
    [][renders' # renders =>
         /\ RenderShowsGrid'
         /\ \A p \in MinePositions(cells) :
               /\ ~cells[p[1]][p[2]].is_open
               /\ rendered'[p[1] + 1][p[2] + 1] = " "]_vars

\* a render of a 3x3 grid showing the digits 0, 1 and 2 and blanks over both mines
C13_Witness ==
    /\ pc = "guess"
    /\ width = 3
    /\ height = 3
    /\ RenderShowsGrid
    /\ {"0", "1", "2"} \subseteq {Token(p[1], p[2]) : p \in Positions}
    /\ Cardinality(MinePositions(cells)) = 2
    /\ \A p \in MinePositions(cells) : Token(p[1], p[2]) = " "

----------------------------------------------------------------------------
(* C14 *)

\* a game on a grid with positive dimensions
PositiveGame == Playable /\ width > 0 /\ height > 0

\* the opened non-mine cells
OpenedNonMines == { p \in Positions : cells[p[1]][p[2]].is_open /\ ~cells[p[1]][p[2]].has_mine }

\* C14: given a valid guess in every turn, a game on a grid with width, height > 0
\* reaches Won or Lost, after at most width*height - floor(width*height/4) applied
\* guesses: each applied guess ends the game or opens one more non-mine cell.
C14_GameTerminates ==
    /\ [](PositiveGame => applied <= width * height - ((width * height) \div 4))
    /\ [][pc = "has_guessed_mine" => (GameState' = "Lost" \/ pc' = "open")]_vars
    /\ [][pc = "open" =>
            Cardinality(OpenedNonMines') = Cardinality(OpenedNonMines) + 1]_vars
    /\ (PositiveGame ~> (GameState \in {"Won", "Lost"}))

\* a 3x2 game lost on its fifth guess, the most its five non-mine cells allow
C14_Witness ==
    /\ GameState = "Lost"
    /\ width = 3
    /\ height = 2
    /\ applied = 5
    /\ applied = width * height - ((width * height) \div 4)
    /\ Cardinality(OpenedNonMines) = 4

----------------------------------------------------------------------------
(* C15 *)

\* the control flow is inside _get_user_guess
Guessing == pc \in {"guess", "get_x", "get_y", "is_cell_opened"}

\* C15: each turn runs win check, render, obtain guess, mine test, open, in this
\* order; the grid is rendered exactly once before each guess, and only in states
\* where some non-mine cell is still unopened.
C15_TurnOrder ==
    /\ [][pc = "while" =>
            /\ pc' \in {"print", "done"}
            /\ pc' = "print" <=> SomeNonMineUnopened
            /\ renders' = renders]_vars
    /\ [][pc = "print" => (pc' = "guess" /\ renders' = renders + 1)]_vars
    /\ [][Guessing =>
            /\ Guessing' \/ pc' = "has_guessed_mine"
            /\ renders' = renders
            /\ cells' = cells]_vars
    /\ [][pc = "has_guessed_mine" => (pc' \in {"open", "done"} /\ cells' = cells)]_vars
    /\ [][pc = "open" => (pc' = "while" /\ cells' # cells)]_vars
    /\ [][renders' # renders => (pc = "print" /\ SomeNonMineUnopened)]_vars
    /\ [](Guessing => renders = applied + 1)
    /\ []((Playable /\ ~Guessing) => renders = applied)

\* the third guess was returned after the third render
C15_Witness ==
    /\ pc = "has_guessed_mine"
    /\ renders = 3
    /\ applied = 3
    /\ Cardinality({p \in Positions : cells[p[1]][p[2]].is_open}) = 2
    /\ message = "Enter zero-index y-coordinate between 0 and max_index: "

----------------------------------------------------------------------------
(* C16 *)

\* C16 as claimed: between the opening of the last non-mine cell and the win
\* message the grid is rendered once more, so a won game has one render more than
\* guesses and its last render shows the last cell opened.
C16_ExtraRenderBeforeWin ==
    (GameState = "Won" /\ applied > 0) => (renders = applied + 1 /\ RenderShowsGrid)

\* C16 as it holds: the win test at the top of the loop runs before Grid.print,
\* so the win message follows the opening of the last non-mine cell with no
\* render in between; the last render of a won game predates its last open.
C16_NoRenderBeforeWin ==
    /\ [][OpensLastNonMine => pc' = "while"]_vars
    /\ [][(pc = "while" /\ ~SomeNonMineUnopened) =>
            (GameState' = "Won" /\ renders' = renders /\ rendered' = rendered)]_vars
    /\ []((Playable /\ AllNonMinesOpen) => pc \in {"while", "done"})
    /\ [](GameState = "Won" => (renders = applied /\ (applied > 0 => ~RenderShowsGrid)))

\* a won 3x2 game: five guesses, five renders, the last one older than the last open
C16_Witness ==
    /\ GameState = "Won"
    /\ width = 3
    /\ height = 2
    /\ applied = 5
    /\ renders = 5
    /\ ~RenderShowsGrid
    /\ Cardinality({p \in Positions : Token(p[1], p[2]) = " "}) = 2

----------------------------------------------------------------------------
(* C17 *)

OpenCells == { p \in Positions : cells[p[1]][p[2]].is_open }

\* a guess was returned and play() has not yet acted on it
GuessPending == pc \in {"has_guessed_mine", "open"}

\* the guesses that named no mine and that play() has applied to the grid
NonMineGuessesApplied == applied - mine_guesses - (IF GuessPending THEN 1 ELSE 0)

\* C17: for width, height > 0 the fresh grid holds a non-mine cell
\* (floor(width*height/4) < width*height), so has_unopened_non_mines() is true
\* right after construction, the game starts in Playing and Won is not reached
\* before a cell is opened; the open cells number the non-mine guesses applied.
C17_StartsPlayable ==
    /\ [][(pc = "main" /\ width' > 0 /\ height' > 0) =>
            /\ mine_count' < width' * height'
            /\ Positions' \ MinePositions(cells') # {}
            /\ has_unopened_non_mines(cells')
            /\ GameState' = "Playing"
            /\ pc' = "while"]_vars
    /\ []((PositiveGame /\ GameState = "Won") => OpenCells # {})
    /\ [](Playable => Cardinality(OpenCells) = NonMineGuessesApplied)

\* a 3x3 game about to open its third cell: two cells open, three guesses returned
C17_Witness ==
    /\ pc = "open"
    /\ width = 3
    /\ height = 3
    /\ applied = 3
    /\ mine_guesses = 0
    /\ Cardinality(OpenCells) = 2
    /\ has_unopened_non_mines(cells)

----------------------------------------------------------------------------
(* C18 *)

\* the grid `cs` with has_mine of the cell at p negated
WithMineFlipped(cs, p) == [cs EXCEPT ![p[1]][p[2]].has_mine = ~@]

\* the grids construction can yield, each paired with its <<width, height>>
FreshGrids ==
    UNION { { <<d, set_cell_mines_and_adjacent_counts(
                       create_empty_cells(d[1], d[2]), d[1], d[2], mine_positions)>> :
                mine_positions \in
                    random_sample(generate_grid_coordinate_positions(d[1], d[2]),
                                  (d[1] * d[2]) \div 4) } :
            d \in { e \in Dimensions : e[1] > 0 /\ e[2] > 0 } }

\* the grids construction can yield with the dimensions of the current grid
FreshGridsHere == { g[2] : g \in { f \in FreshGrids : f[1] = <<width, height>> } }

\* the grid `fresh` of another construction with the cells opened that are open
\* in `cs`
OtherGame(cs, fresh) ==
    [r \in DOMAIN cs |-> [c \in DOMAIN cs[r] |->
        [fresh[r][c] EXCEPT !.is_open = cs[r][c].is_open]]]

\* the opened cells of the two grids carry the same counts
OpenedCountsAgree(cs, other) ==
    \A r \in DOMAIN cs : \A c \in DOMAIN cs[r] :
        cs[r][c].is_open =>
            other[r][c].adjacent_mines_count = cs[r][c].adjacent_mines_count

\* C18: a render depends on each cell's is_open and adjacent_mines_count only,
\* never on has_mine: negating any cell's has_mine leaves it as it is, a game on
\* a grid of the same dimensions whose opened cells and their counts agree
\* renders identically, and fresh grids render all blank whatever their mines.
C18_RenderIgnoresMines ==
    [][renders' # renders =>
         /\ \A p \in Positions :
               grid_print(WithMineFlipped(cells, p), width, height) = rendered'
         /\ \A fresh \in FreshGridsHere :
               LET other == OtherGame(cells, fresh)
               IN  OpenedCountsAgree(cells, other) =>
                       grid_print(other, width, height) = rendered'
         /\ renders = 0 =>
               rendered' = [r \in 1..height |-> [c \in 1..width |-> " "]]]_vars

\* a render of a 3x3 game with opened cells that a game with other mines, whose
\* opened cells carry the same counts, renders the same
C18_Witness ==
    /\ pc = "guess"
    /\ width = 3
    /\ height = 3
    /\ Cardinality(OpenCells) = 2
    /\ \E p \in OpenCells : cells[p[1]][p[2]].adjacent_mines_count = 1
    /\ \E fresh \in FreshGridsHere :
          /\ MinePositions(fresh) # MinePositions(cells)
          /\ OpenedCountsAgree(cells, OtherGame(cells, fresh))
          /\ grid_print(OtherGame(cells, fresh), width, height) = rendered

====
